---------------------------- MODULE SPRuntimeProofs ----------------------------
(***************************************************************************)
(* Proofs about the generic reconcile loop: that it implements the feed of *)
(* the ProviderConfig, its types, that neither the service nor an          *)
(* AccessRequest is left behind, and that deletion renews no access.       *)
(***************************************************************************)
EXTENDS SPRuntime, ProviderConfigFeedProofs

(* Every step of the loop is one of the feed it contains, or a stutter.    *)
LEMMA StepOfFeed == [Next]_vars => [FeedNext]_feedVars
BY DEF Next, vars, FeedNext, ListObjects, Crash

(* SPRuntime implements the feed of the ProviderConfig: the pointer ends   *)
(* up with what the ProviderConfig says (pcreconciler.go:63-77,            *)
(* spreconciler.go:366-372).                                               *)
THEOREM RuntimeConfigSettles == Spec => []SettledConfigIsCurrent
<1>1. Spec => FeedSpec
  BY StepOfFeed, PTL DEF Spec, FeedSpec, Init
<1> QED BY <1>1, ConfigSettles, PTL
-------------------------------------------------------------------------------
(* The inductive invariant                                                 *)

(* Which calls a deleting pass makes, and which another does.              *)
CallFitsPass ==
  /\ call \in {"CheckAccess", "Delete", "ReleaseAccess", "RemoveFinalizer"}
       => pass.deleting
  /\ call \in {"AddFinalizer", "CreateOrUpdate"} => ~pass.deleting
  /\ call = "PatchStatus" /\ pass.next = "ReleaseAccess" => pass.deleting

(* Access is asked for and used only under the finalizer.                  *)
PassIsOwned ==
  call \in {"ReconcileAccess", "GetClusters", "CreateOrUpdate", "Delete"}
    => Owned

(* A pass that has begun to release access has removed the service, and    *)
(* the finalizer goes only when there is no access left.                   *)
ReleaseIsOrdered ==
  /\ call = "ReleaseAccess" => deployed = Nothing
  /\ call = "PatchStatus" /\ pass.next = "ReleaseAccess" => deployed = Nothing
  /\ call = "RemoveFinalizer" => \A c \in Clusters : access[c] = "absent"

(* The finalizer of an object that is not deleted is safe from a deleting  *)
(* pass, and its access is not being revoked.                              *)
DeletionIsFinal ==
  /\ pass # NoPass /\ pass.deleting /\ Owned => obj.deleting
  /\ \A c \in Clusters : access[c] = "revoking" =>
       /\ obj.deleting
       /\ pass # NoPass => pass.deleting

(* What areAccessRequestsInDeletion has established for a deleting pass,   *)
(* and getClusters for any.                                                *)
AccessIsEstablished ==
  /\ call = "ReconcileAccess" /\ pass.deleting =>
       \A c \in Clusters : access[c] \in {"pending", "granted"}
  /\ call = "CreateOrUpdate" => \A c \in Clusters : access[c] = "granted"

(* A copy that is not stale is one of an object that exists.               *)
FreshCopyExists == call \notin {"Idle", "Get"} /\ ~stale => obj # NoObject

(* The access is set up and used only by a pass with a ProviderConfig.     *)
PassHasConfig ==
  call \in {"AddFinalizer", "CheckAccess", "ReconcileAccess", "GetClusters",
            "CreateOrUpdate"} => pass.config \in ProviderConfigs

(* Who owns what is on the clusters, and what each call may rely on.       *)
Ownership ==
  /\ AccessIsOwned /\ ServiceIsOwned
  /\ CallFitsPass /\ PassIsOwned /\ ReleaseIsOrdered /\ DeletionIsFinal
  /\ AccessIsEstablished

IInv == TypeOK /\ FreshCopyExists /\ PassHasConfig /\ Ownership

-------------------------------------------------------------------------------
(* Types                                                                   *)

(* The types of the variables of the reconcile loop itself.                *)
SPTypes ==
  /\ obj \in Objects \cup {NoObject}
  /\ queued \in BOOLEAN /\ stale \in BOOLEAN
  /\ call \in Calls /\ pass \in Passes \cup {NoPass}
  /\ call \in {"Idle", "Get"} <=> pass = NoPass
  /\ access \in [Clusters -> AccessStates]
  /\ deployed \in ProviderConfigs \cup {Nothing}

(* There is a fault or none in every step.                                 *)
LEMMA FaultsCounted ==
  ASSUME faults \in 0..MaxFaults, [Next]_vars
  PROVE  faults' \in 0..MaxFaults
<1>1. CASE Fault
  BY <1>1, FeedAssumption DEF Fault, FeedAssumption
<1>2. CASE NoFault
  BY <1>2 DEF NoFault
<1>3. Fault \/ NoFault
  <2>1. CASE FeedStep
    BY <2>1 DEF FeedStep, PCStart, PCGet, PCSend, StoreConfig, WriteConfig
  <2>2. CASE ListObjects \/ Crash
    BY <2>2 DEF ListObjects, Crash
  <2>3. CASE Reconcile
    BY <2>3 DEF Reconcile, Start, GetObject, GetFails, AddFinalizer,
       AddFinalizerFails, CheckAccess, ReconcileAccess, GetClusters,
       CreateOrUpdate, Delete, PatchStatus, ReleaseAccess, RemoveFinalizer
  <2>4. CASE Platform \/ ForeignRelease
    BY <2>4 DEF Platform, ForeignRelease
  <2>5. CASE UserCreate \/ UserEdit \/ UserDelete
    BY <2>5 DEF UserCreate, UserEdit, UserDelete, ObjectWritten
  <2>6. CASE UNCHANGED vars
    BY <2>6 DEF vars, NoFault
  <2> QED BY <2>1, <2>2, <2>3, <2>4, <2>5, <2>6 DEF Next
<1> QED BY <1>1, <1>2, <1>3

(* The channel never holds more events than fit into it.                   *)
LEMMA FeedTypesInductive ==
  ASSUME FeedTypeOK, [Next]_vars
  PROVE  FeedTypeOK'
<1>1. faults' \in 0..MaxFaults
  BY FaultsCounted DEF FeedTypeOK
<1> USE <1>1, FeedAssumption DEF FeedTypeOK, FeedAssumption
<1>2. CASE PCStart
  BY <1>2 DEF PCStart
<1>3. CASE PCGet
  BY <1>3, PublishedType DEF PCGet, Events
<1>4. CASE PCSend
  <2>1. channel' \in Seq(Events) /\ Len(channel') = Len(channel) + 1
    BY <1>4, AppendProperties DEF PCSend
  <2>2. Len(channel') <= Capacity
    BY <2>1, <1>4, LenProperties DEF PCSend
  <2> QED BY <2>1, <2>2, <1>4 DEF PCSend, Events
<1>5. CASE StoreConfig
  <2>1. /\ channel' \in Seq(Events) /\ Len(channel') = Len(channel) - 1
        /\ stored' \in Events
    BY <1>5, HeadTailProperties DEF StoreConfig
  <2>2. Len(channel') <= Capacity
    BY <2>1, LenProperties
  <2> QED BY <2>1, <2>2, <1>5 DEF StoreConfig
<1>6. CASE WriteConfig
  <2>1. pcObject' \in PCObjects \cup {NoProviderConfig}
    BY <1>6 DEF WriteConfig
  <2>2. configWrites' \in 0..MaxConfigWrites
    BY <1>6 DEF WriteConfig
  <2>3. /\ pcQueued' = TRUE
        /\ UNCHANGED <<pcCall, notify, pcRetry, channel, stored, listing>>
    BY <1>6 DEF WriteConfig
  <2> QED BY <2>1, <2>2, <2>3
<1>7. CASE EndListing
  BY <1>7 DEF EndListing
<1>8. CASE FeedRestarts
  <2>1. channel' \in Seq(Events) /\ Len(channel') <= Capacity
    BY <1>8, EmptySeq DEF FeedRestarts
  <2>2. /\ notify' \in Events /\ stored' \in Events
        /\ pcQueued' \in BOOLEAN /\ pcRetry' \in BOOLEAN
        /\ listing' \in BOOLEAN /\ pcCall' \in {"Idle", "Get", "Send"}
    BY <1>8 DEF FeedRestarts, Events
  <2> QED BY <2>1, <2>2, <1>8 DEF FeedRestarts
<1>9. CASE UNCHANGED feedVars
  BY <1>9 DEF feedVars
<1> QED BY <1>2, <1>3, <1>4, <1>5, <1>6, <1>7, <1>8, <1>9, StepOfFeed
    DEF FeedNext, FeedStep

(* The steps of a pass keep the types of the loop's variables.             *)
LEMMA ReconcileTypes ==
  ASSUME TypeOK, FreshCopyExists, PassHasConfig, Reconcile
  PROVE  SPTypes'
<1> USE RuntimeAssumption, NullsAssumption, FeedAssumption
    DEF RuntimeAssumption, NullsAssumption, FeedAssumption, TypeOK, SPTypes,
        Calls
<1>1. CASE Start
  BY <1>1 DEF Start
<1>2. CASE GetObject
  <2>1. obj \in Objects /\ stored \in Events
    BY <1>2 DEF GetObject, FeedTypeOK
  <2>2. \A phase \in Phases : NewPass(phase) \in Passes
    BY <2>1 DEF NewPass, Passes, Objects
  <2>3. obj.phase \in Phases /\ "ConfigMissing" \in Phases
    BY <2>1 DEF Objects, Phases
  <2>4. pass' \in Passes
    BY <1>2, <2>2, <2>3 DEF GetObject
  <2>5. call' \in {"PatchStatus", "CheckAccess", "AddFinalizer"}
    BY <1>2 DEF GetObject
  <2> QED BY <1>2, <2>4, <2>5 DEF GetObject
<1>3. CASE GetFails
  BY <1>3 DEF GetFails, EndPass
<1>4. CASE AddFinalizer
  <2>1. pass \in Passes /\ obj \in Objects
    BY <1>4 DEF AddFinalizer
  <2>2. obj' \in Objects /\ pass' \in Passes
    BY <1>4, <2>1 DEF AddFinalizer, Objects, Passes
  <2>3. queued' \in BOOLEAN
    BY <1>4, <2>1 DEF AddFinalizer, Objects
  <2> QED BY <1>4, <2>2, <2>3 DEF AddFinalizer
<1>5. CASE AddFinalizerFails
  BY <1>5 DEF AddFinalizerFails, Requeue, EndPass
<1>6. CASE CheckAccess
  BY <1>6 DEF CheckAccess, Continue, Requeue, EndPass
<1>7. CASE ReconcileAccess
  <2>1. access' \in [Clusters -> AccessStates]
    <3>1. \A c \in Clusters : access[c] \in AccessStates
      OBVIOUS
    <3>2. PICK cs \in SUBSET Clusters :
            access' = [c \in Clusters |->
              IF c \in cs /\ access[c] = "absent" THEN "pending"
              ELSE access[c]]
      BY <1>7 DEF ReconcileAccess
    <3> QED BY <3>1, <3>2 DEF AccessStates
  <2>2. \/ EndPass(TRUE)
        \/ Continue("GetClusters") /\ UNCHANGED <<queued, pass>>
    BY <1>7 DEF ReconcileAccess
  <2> QED BY <1>7, <2>1, <2>2 DEF ReconcileAccess, EndPass, Continue
<1>8. CASE GetClusters
  BY <1>8 DEF GetClusters, Continue, Requeue, EndPass
<1>9. CASE CreateOrUpdate
  <2>1. pass \in Passes
    BY <1>9 DEF CreateOrUpdate
  <2>2. pass' \in Passes
    BY <1>9, <2>1, ZenonT(30) DEF CreateOrUpdate, Answer, Passes, Phases
  <2>3. deployed' \in ProviderConfigs \cup {Nothing}
    BY <1>9 DEF CreateOrUpdate, PassHasConfig
  <2>4. call' = "PatchStatus" /\ UNCHANGED <<obj, queued, access, stale>>
    BY <1>9 DEF CreateOrUpdate, Answer, Continue
  <2> QED BY <2>2, <2>3, <2>4
<1>10. CASE Delete
  <2>1. pass' \in Passes
    BY <1>10, ZenonT(30) DEF Delete, Answer, Passes, Phases
  <2>2. deployed' \in ProviderConfigs \cup {Nothing}
    BY <1>10 DEF Delete
  <2>3. call' = "PatchStatus" /\ UNCHANGED <<obj, queued, access, stale>>
    BY <1>10 DEF Delete, Answer, Continue
  <2> QED BY <2>1, <2>2, <2>3
<1>11. CASE PatchStatus
  <2>1. obj' \in Objects \cup {NoObject}
    BY <1>11, ZenonT(30) DEF PatchStatus, Objects, Passes
  <2>2. PICK isStale \in BOOLEAN : Proceed(isStale)
    BY <1>11 DEF PatchStatus
  <2>3. /\ call' \in Calls /\ queued' \in BOOLEAN /\ stale' \in BOOLEAN
        /\ pass' \in Passes \cup {NoPass}
        /\ call' \in {"Idle", "Get"} <=> pass' = NoPass
    BY <2>2, <1>11 DEF Proceed, EndPass, PatchStatus
  <2>4. UNCHANGED <<access, deployed>>
    BY <1>11 DEF PatchStatus
  <2> QED BY <2>1, <2>3, <2>4
<1>12. CASE ReleaseAccess
  <2>1. access' \in [Clusters -> AccessStates]
    <3>1. \A c \in Clusters : access[c] \in AccessStates
      OBVIOUS
    <3>2. PICK cs \in SUBSET Clusters :
            access' = [c \in Clusters |->
              IF c \notin cs THEN access[c]
              ELSE IF access[c] \in {"granted", "revoking"} /\ ~ReleaseAtOnce
                   THEN "revoking" ELSE "absent"]
      BY <1>12 DEF ReleaseAccess
    <3> QED BY <3>1, <3>2 DEF AccessStates
  <2>2. \/ EndPass(TRUE)
        \/ Continue("RemoveFinalizer") /\ UNCHANGED <<queued, pass>>
    BY <1>12 DEF ReleaseAccess
  <2> QED BY <1>12, <2>1, <2>2 DEF ReleaseAccess, EndPass, Continue
<1>13. CASE RemoveFinalizer
  <2>1. obj' \in Objects \cup {NoObject}
    BY <1>13 DEF RemoveFinalizer, Objects, FreshCopyExists
  <2> QED BY <1>13, <2>1 DEF RemoveFinalizer, EndPass
<1> QED BY <1>1, <1>2, <1>3, <1>4, <1>5, <1>6, <1>7, <1>8, <1>9, <1>10, <1>11,
           <1>12, <1>13 DEF Reconcile

(* So do the steps around it.                                              *)
LEMMA EnvironmentTypes ==
  ASSUME TypeOK,
         \/ ListObjects \/ Crash \/ Platform \/ ForeignRelease
         \/ UserCreate \/ UserEdit \/ UserDelete \/ UNCHANGED spVars
  PROVE  SPTypes'
<1> USE RuntimeAssumption, NullsAssumption
    DEF RuntimeAssumption, NullsAssumption, TypeOK, SPTypes, Calls
<1>1. CASE ListObjects
  BY <1>1 DEF ListObjects
<1>2. CASE Crash
  BY <1>2 DEF Crash
<1>3. CASE Platform
  BY <1>3 DEF Platform, AccessStates
<1>4. CASE ForeignRelease
  BY <1>4 DEF ForeignRelease, Objects
<1>5. CASE UserCreate
  <2>1. PICK foreign \in ForeignFinalizers :
          obj' = [deleting |-> FALSE, finalizer |-> FALSE, foreign |-> foreign,
                  phase |-> ""]
    BY <1>5 DEF UserCreate
  <2>2. obj' \in Objects
    BY <2>1 DEF Objects, Phases
  <2> QED BY <1>5, <2>2 DEF UserCreate, ObjectWritten
<1>6. CASE UserEdit
  BY <1>6 DEF UserEdit, ObjectWritten
<1>7. CASE UserDelete
  BY <1>7 DEF UserDelete, ObjectWritten, Objects
<1>8. CASE UNCHANGED spVars
  BY <1>8 DEF spVars
<1> QED BY <1>1, <1>2, <1>3, <1>4, <1>5, <1>6, <1>7, <1>8

(* A write by someone else makes the copy stale, and the copy that follows *)
(* a write of the loop's own is of an object that exists.                  *)
LEMMA FreshCopyInductive ==
  ASSUME TypeOK, FreshCopyExists, [Next]_vars
  PROVE  FreshCopyExists'
<1> USE NullsAssumption DEF NullsAssumption, TypeOK, FreshCopyExists
<1>1. CASE FeedStep /\ UNCHANGED spVars
  BY <1>1 DEF spVars
<1>2. CASE ListObjects \/ Crash
  BY <1>2 DEF ListObjects, Crash
<1>3. CASE Reconcile
  <2>1. CASE Start \/ GetObject \/ GetFails
    BY <2>1 DEF Start, GetObject, GetFails, EndPass
  <2>2. CASE AddFinalizer \/ AddFinalizerFails
    <3>1. obj # NoObject => [obj EXCEPT !.finalizer = TRUE] \in Objects
      BY DEF Objects
    <3> QED BY <2>2, <3>1 DEF AddFinalizer, AddFinalizerFails, Requeue, EndPass
  <2>3. CASE CheckAccess \/ ReconcileAccess \/ GetClusters
    BY <2>3 DEF CheckAccess, ReconcileAccess, GetClusters, Continue, Requeue,
       EndPass
  <2>4. CASE CreateOrUpdate \/ Delete
    BY <2>4 DEF CreateOrUpdate, Delete, Answer, Continue
  <2>5. CASE PatchStatus
    <3>1. pass \in Passes
      BY <2>5 DEF PatchStatus
    <3>2. obj # NoObject => [obj EXCEPT !.phase = pass.phase] \in Objects
      BY <3>1 DEF Objects, Passes
    <3> QED BY <2>5, <3>2 DEF PatchStatus, Proceed, EndPass
  <2>6. CASE ReleaseAccess \/ RemoveFinalizer
    BY <2>6 DEF ReleaseAccess, RemoveFinalizer, Continue, EndPass
  <2> QED BY <1>3, <2>1, <2>2, <2>3, <2>4, <2>5, <2>6 DEF Reconcile
<1>4. CASE Platform \/ ForeignRelease
  BY <1>4 DEF Platform, ForeignRelease
<1>5. CASE UserCreate \/ UserEdit \/ UserDelete
  BY <1>5 DEF UserCreate, UserEdit, UserDelete, ObjectWritten
<1>6. CASE UNCHANGED vars
  BY <1>6 DEF vars, spVars
<1> QED BY <1>1, <1>2, <1>3, <1>4, <1>5, <1>6 DEF Next

(* A pass without a ProviderConfig only patches the status.                *)
LEMMA PassConfigInductive ==
  ASSUME TypeOK, PassHasConfig, [Next]_vars
  PROVE  PassHasConfig'
<1> USE DEF PassHasConfig
<1>1. CASE GetObject
  <2>1. stored \in Events /\ pass'.config = stored
    BY <1>1 DEF GetObject, NewPass, TypeOK, FeedTypeOK
  <2>2. stored = NoProviderConfig => call' = "PatchStatus"
    BY <1>1 DEF GetObject
  <2> QED BY <2>1, <2>2 DEF Events
<1>2. CASE AddFinalizer
  <2>1. pass \in Passes
    BY <1>2 DEF AddFinalizer, TypeOK
  <2> QED BY <1>2, <2>1 DEF AddFinalizer, Passes
<1>3. CASE CheckAccess \/ ReconcileAccess
  BY <1>3 DEF CheckAccess, ReconcileAccess, Continue, Requeue, EndPass
<1>4. CASE GetClusters
  BY <1>4 DEF GetClusters, Continue, Requeue, EndPass
<1>5. CASE CreateOrUpdate \/ Delete
  BY <1>5 DEF CreateOrUpdate, Delete, Answer, Continue
<1>6. CASE PatchStatus
  BY <1>6 DEF PatchStatus, Proceed, EndPass
<1>7. CASE ReleaseAccess \/ RemoveFinalizer
  BY <1>7 DEF ReleaseAccess, RemoveFinalizer, Continue, EndPass
<1>8. CASE Start \/ GetFails \/ AddFinalizerFails \/ Crash
  BY <1>8 DEF Start, GetFails, AddFinalizerFails, Requeue, EndPass, Crash
<1>9. CASE UNCHANGED <<call, pass>>
  BY <1>9
<1> QED BY <1>1, <1>2, <1>3, <1>4, <1>5, <1>6, <1>7, <1>8, <1>9
    DEF Next, Reconcile, vars, spVars, ListObjects, Platform, ForeignRelease,
        UserCreate, UserEdit, UserDelete, ObjectWritten

(* The type invariant needs the two facts about a pass's copies.           *)
LEMMA TypesInductive ==
  ASSUME TypeOK, FreshCopyExists, PassHasConfig, [Next]_vars
  PROVE  TypeOK'
<1>1. FeedTypeOK'
  BY FeedTypesInductive DEF TypeOK
<1>2. SPTypes'
  BY ReconcileTypes, EnvironmentTypes DEF Next, vars
<1>3. userActions' \in 0..MaxUserActions
  <2>1. CASE UserCreate \/ UserEdit \/ UserDelete
    <3>1. ObjectWritten
      BY <2>1 DEF UserCreate, UserEdit, UserDelete
    <3>2. userActions \in Nat
      BY DEF TypeOK
    <3> QED BY <3>1, <3>2, RuntimeAssumption
            DEF ObjectWritten, RuntimeAssumption
  <2>2. CASE UNCHANGED userActions
    BY <2>2 DEF TypeOK
  <2> QED BY <2>1, <2>2 DEF Next, vars, spVars
<1>4. unlisted' \in BOOLEAN
  <2>1. CASE ListObjects \/ Crash
    BY <2>1 DEF ListObjects, Crash
  <2>2. CASE UNCHANGED unlisted
    BY <2>2 DEF TypeOK
  <2> QED BY <2>1, <2>2 DEF Next, vars, spVars
<1> QED BY <1>1, <1>2, <1>3, <1>4 DEF TypeOK, SPTypes

-------------------------------------------------------------------------------
(* The invariant is inductive                                              *)

(* Facts about a record after one field of it is set.                      *)
LEMMA RecordUpdates ==
  /\ \A o \in Objects, f \in Phases :
       /\ [o EXCEPT !.phase = f] \in Objects
       /\ [o EXCEPT !.phase = f].finalizer = o.finalizer
       /\ [o EXCEPT !.phase = f].deleting = o.deleting
  /\ \A o \in Objects :
       /\ [o EXCEPT !.finalizer = TRUE] \in Objects
       /\ [o EXCEPT !.finalizer = TRUE].finalizer
       /\ [o EXCEPT !.finalizer = TRUE].deleting = o.deleting
  /\ \A p \in Passes, f \in Phases :
       [p EXCEPT !.phase = f].deleting = p.deleting
BY DEF Objects, Passes

(* There is at least one cluster.                                          *)
LEMMA SomeCluster == "mcp" \in Clusters
BY RuntimeAssumption DEF RuntimeAssumption

(* Each step of a pass keeps ownership.                                    *)
LEMMA ReconcileOwnership ==
  ASSUME IInv, Reconcile
  PROVE  Ownership'
<1> USE SomeCluster, NullsAssumption, RuntimeAssumption
    DEF IInv, Ownership, TypeOK, Calls, NullsAssumption, RuntimeAssumption,
        Owned, AccessIsOwned, ServiceIsOwned, CallFitsPass, PassIsOwned,
        ReleaseIsOrdered, DeletionIsFinal, AccessIsEstablished
<1>1. CASE Start
  BY <1>1 DEF Start
<1>2. CASE GetObject
  BY <1>2 DEF GetObject, NewPass
<1>3. CASE GetFails
  BY <1>3 DEF GetFails, EndPass
<1>4. CASE AddFinalizer
  BY <1>4, RecordUpdates DEF AddFinalizer
<1>5. CASE AddFinalizerFails
  BY <1>5 DEF AddFinalizerFails, Requeue, EndPass
<1>6. CASE CheckAccess
  <2>1. CASE Requeue
    BY <2>1, <1>6 DEF Requeue, EndPass
  <2>2. CASE /\ Continue("ReleaseAccess")
            /\ UNCHANGED <<obj, pass, access, deployed>>
    <3>1. PICK c \in Clusters : access[c] \in {"absent", "revoking"}
      BY <2>2, <1>6 DEF CheckAccess, Continue, Requeue, EndPass
    <3>2. deployed = Nothing
      BY <3>1
    <3> QED BY <2>2, <1>6, <3>2 DEF CheckAccess, Continue
  <2>3. CASE /\ Continue("ReconcileAccess")
            /\ UNCHANGED <<obj, pass, access, deployed>>
    <3>1. \A c \in Clusters : access[c] \in {"pending", "granted"}
      BY <2>3, <1>6 DEF CheckAccess, Continue, Requeue, EndPass, AccessStates
    <3>2. Owned
      BY <3>1
    <3> QED BY <2>3, <1>6, <3>1, <3>2 DEF CheckAccess, Continue
  <2> QED BY <1>6, <2>1, <2>2, <2>3 DEF CheckAccess
<1>7. CASE ReconcileAccess
  BY <1>7 DEF ReconcileAccess, Continue, EndPass
<1>8. CASE GetClusters
  BY <1>8 DEF GetClusters, Continue, Requeue, EndPass
<1>9. CASE CreateOrUpdate
  <2>1. pass \in Passes /\ ~pass.deleting
    BY <1>9 DEF CreateOrUpdate
  <2>2. /\ pass'.deleting = pass.deleting /\ pass'.next # "ReleaseAccess"
        /\ call' = "PatchStatus" /\ UNCHANGED <<obj, access>>
    BY <1>9, <2>1, ZenonT(30) DEF CreateOrUpdate, Answer, Continue, Passes
  <2> QED BY <1>9, <2>1, <2>2 DEF CreateOrUpdate
<1>10. CASE Delete
  <2>1. pass \in Passes /\ pass.deleting
    BY <1>10 DEF Delete
  <2>2. /\ pass'.deleting = pass.deleting
        /\ pass'.next = "ReleaseAccess" => deployed' = Nothing
        /\ call' = "PatchStatus" /\ UNCHANGED <<obj, access>>
        /\ deployed' \in {deployed, Nothing}
    BY <1>10, <2>1 DEF Delete, Answer, Continue, Passes
  <2> QED BY <2>1, <2>2
<1>11. CASE PatchStatus
  <2>1. pass \in Passes /\ UNCHANGED <<access, deployed>>
    BY <1>11 DEF PatchStatus
  <2>2. /\ obj = NoObject <=> obj' = NoObject
        /\ obj # NoObject => /\ obj'.finalizer = obj.finalizer
                            /\ obj'.deleting = obj.deleting
    <3>1. CASE UNCHANGED obj
      BY <3>1
    <3>2. CASE obj # NoObject /\ obj' = [obj EXCEPT !.phase = pass.phase]
      BY <3>2, <2>1, RecordUpdates DEF Passes
    <3> QED BY <1>11, <3>1, <3>2 DEF PatchStatus
  <2>3. \/ call' = "Idle" /\ pass' = NoPass
        \/ /\ call' = "ReleaseAccess" /\ pass.next = "ReleaseAccess"
           /\ pass' = pass
    BY <1>11 DEF PatchStatus, Proceed, EndPass
  <2>4. CASE call' = "Idle" /\ pass' = NoPass
    BY <2>1, <2>2, <2>4
  <2>5. CASE /\ call' = "ReleaseAccess" /\ pass.next = "ReleaseAccess"
            /\ pass' = pass
    <3>1. pass.deleting /\ deployed = Nothing
      BY <1>11, <2>5 DEF PatchStatus
    <3> QED BY <2>1, <2>2, <2>5, <3>1
  <2> QED BY <2>3, <2>4, <2>5
<1>12. CASE ReleaseAccess
  BY <1>12 DEF ReleaseAccess, Continue, EndPass
<1>13. CASE RemoveFinalizer
  BY <1>13 DEF RemoveFinalizer, EndPass
<1> QED BY <1>1, <1>2, <1>3, <1>4, <1>5, <1>6, <1>7, <1>8, <1>9, <1>10, <1>11,
           <1>12, <1>13 DEF Reconcile

(* So do users, the platform, the handler and a restart.                   *)
LEMMA EnvironmentOwnership ==
  ASSUME IInv,
         \/ ListObjects \/ Crash \/ Platform \/ ForeignRelease
         \/ UserCreate \/ UserEdit \/ UserDelete \/ UNCHANGED spVars
  PROVE  Ownership'
<1> USE SomeCluster, NullsAssumption, RuntimeAssumption
    DEF IInv, Ownership, TypeOK, Calls, NullsAssumption, RuntimeAssumption,
        Owned, AccessIsOwned, ServiceIsOwned, CallFitsPass, PassIsOwned,
        ReleaseIsOrdered, DeletionIsFinal, AccessIsEstablished
<1>1. CASE ListObjects \/ UNCHANGED spVars
  BY <1>1 DEF ListObjects, spVars
<1>2. CASE Crash
  BY <1>2 DEF Crash
<1>3. CASE Platform
  BY <1>3 DEF Platform
<1>4. CASE ForeignRelease
  BY <1>4, ZenonT(30) DEF ForeignRelease, Objects
<1>5. CASE UserCreate
  <2>1. /\ obj = NoObject /\ ~obj'.finalizer
        /\ UNCHANGED <<call, pass, access, deployed>>
    <3>1. PICK foreign \in ForeignFinalizers :
            obj' = [deleting |-> FALSE, finalizer |-> FALSE,
                    foreign |-> foreign, phase |-> ""]
      BY <1>5 DEF UserCreate
    <3>2. ~obj'.finalizer
      BY <3>1
    <3> QED BY <1>5, <3>2 DEF UserCreate, ObjectWritten
  <2>2. deployed = Nothing /\ \A c \in Clusters : access[c] = "absent"
    BY <2>1
  <2> QED BY <2>1, <2>2
<1>6. CASE UserEdit
  BY <1>6 DEF UserEdit, ObjectWritten
<1>7. CASE UserDelete
  BY <1>7 DEF UserDelete, ObjectWritten, Objects
<1> QED BY <1>1, <1>2, <1>3, <1>4, <1>5, <1>6, <1>7

-------------------------------------------------------------------------------
(* Theorems                                                                *)

(* Nothing is owned by anyone to begin with.                               *)
LEMMA IInvInit == Init => IInv
<1> SUFFICES ASSUME Init PROVE IInv
  OBVIOUS
<1> USE DEF Init, FeedInit
<1>1. FeedTypeOK
  <2>1. channel \in Seq(Events) /\ Len(channel) <= Capacity
    BY FeedAssumption, EmptySeq DEF FeedAssumption
  <2>2. notify \in Events /\ stored \in Events
    BY DEF Events
  <2>3. configWrites \in 0..MaxConfigWrites /\ faults \in 0..MaxFaults
    BY FeedAssumption DEF FeedAssumption
  <2> QED BY <2>1, <2>2, <2>3 DEF FeedTypeOK
<1>2. TypeOK
  <2>1. userActions \in 0..MaxUserActions
    BY RuntimeAssumption DEF RuntimeAssumption
  <2>2. access \in [Clusters -> AccessStates]
    BY DEF AccessStates
  <2> QED BY <1>1, <2>1, <2>2 DEF TypeOK, Calls
<1>3. AccessIsOwned /\ ServiceIsOwned /\ CallFitsPass /\ PassIsOwned
  BY DEF AccessIsOwned, ServiceIsOwned, CallFitsPass, PassIsOwned
<1>4. ReleaseIsOrdered /\ DeletionIsFinal /\ AccessIsEstablished
  BY DEF ReleaseIsOrdered, DeletionIsFinal, AccessIsEstablished
<1>5. FreshCopyExists /\ PassHasConfig
  BY DEF FreshCopyExists, PassHasConfig
<1> QED BY <1>2, <1>3, <1>4, <1>5 DEF IInv, Ownership

(* Every step keeps the invariant.                                         *)
LEMMA IInvInductive == IInv /\ [Next]_vars => IInv'
<1> SUFFICES ASSUME IInv, [Next]_vars PROVE IInv'
  OBVIOUS
<1>1. TypeOK' /\ FreshCopyExists' /\ PassHasConfig'
  BY TypesInductive, FreshCopyInductive, PassConfigInductive DEF IInv
<1>2. Ownership'
  BY ReconcileOwnership, EnvironmentOwnership DEF Next, vars
<1> QED BY <1>1, <1>2 DEF IInv, Ownership

(* The order of the calls of one pass, and the finalizer, are what keeps   *)
(* the clusters clean: the invariant holds throughout.                     *)
THEOREM RuntimeInvariant == Spec => []IInv
BY IInvInit, IInvInductive, PTL DEF Spec

(* The variables of the loop keep their types, and the channel never holds *)
(* more events than its capacity (spreconciler.go, pcreconciler.go).       *)
THEOREM RuntimeTypeCorrect == Spec => []TypeOK
<1>1. IInv => TypeOK
  BY DEF IInv
<1> QED BY <1>1, RuntimeInvariant, PTL

(* While the service is deployed, the object carries the finalizer and all *)
(* access that removing the service takes is granted, whatever fails       *)
(* (spreconciler.go:233-264).                                              *)
THEOREM NoServiceLeftBehind == Spec => []ServiceIsOwned
<1>1. IInv => ServiceIsOwned
  BY DEF IInv, Ownership
<1> QED BY <1>1, RuntimeInvariant, PTL

(* No AccessRequest outlives the object (spreconciler.go:250-264).         *)
THEOREM NoAccessLeftBehind == Spec => []AccessIsOwned
<1>1. IInv => AccessIsOwned
  BY DEF IInv, Ownership
<1> QED BY <1>1, RuntimeInvariant, PTL

(* A deleting pass creates no AccessRequest (areAccessRequestsInDeletion,  *)
(* spreconciler.go:288-309).                                               *)
THEOREM NoRenewal == Spec => DeletionNeverRenewsAccess
<1> DEFINE Renews == \E c \in Clusters :
                       access[c] = "absent" /\ access'[c] = "pending"
<1>1. IInv /\ [Next]_vars => [Renews => ~pass.deleting]_vars
  <2> SUFFICES ASSUME IInv, Next, Renews PROVE ~pass.deleting
    OBVIOUS
  <2>1. PICK c \in Clusters : access[c] = "absent" /\ access'[c] = "pending"
    OBVIOUS
  <2>2. access \in [Clusters -> AccessStates]
    BY DEF IInv, TypeOK
  <2>3. ~UNCHANGED access
    BY <2>1
  <2>4. ~Platform
    BY <2>1, <2>2 DEF Platform
  <2>5. ~ReleaseAccess
    BY <2>1, <2>2 DEF ReleaseAccess
  <2>6. ReconcileAccess
    BY <2>3, <2>4, <2>5 DEF Next, spVars, ListObjects, Crash, Reconcile, Start,
       GetObject, GetFails, AddFinalizer, AddFinalizerFails, CheckAccess,
       GetClusters, CreateOrUpdate, Delete, Answer, PatchStatus,
       RemoveFinalizer, Requeue, ForeignRelease, UserCreate, UserEdit,
       UserDelete, ObjectWritten
  <2> QED BY <2>1, <2>6 DEF ReconcileAccess, IInv, Ownership,
          AccessIsEstablished
<1> QED BY <1>1, RuntimeInvariant, PTL DEF Spec, DeletionNeverRenewsAccess
-------------------------------------------------------------------------------
(* The refinement                                                          *)

(* What is promised speaks of the finalizer, the deletion, the access and  *)
(* the service only.                                                       *)
LEMMA SameMapping ==
  ASSUME UNCHANGED <<obj, access, deployed>>
  PROVE  UNCHANGED Lifecycle!vars
BY DEF Lifecycle!vars, OwnerState, AccessState, Owned

(* The steps that write the object claim it, let it go, mark it as leaving *)
(* or leave its owner alone.                                               *)
LEMMA OwnerMapped ==
  ASSUME IInv, UNCHANGED <<access, deployed>>,
         \/ AddFinalizer \/ PatchStatus \/ RemoveFinalizer
         \/ ForeignRelease \/ UserCreate \/ UserEdit \/ UserDelete
  PROVE  [Lifecycle!Next]_(Lifecycle!vars)
<1> USE DEF IInv, Ownership
<1>1. AccessState' = AccessState /\ (deployed # Nothing)' = (deployed # Nothing)
  BY DEF AccessState
<1>2. CASE OwnerState' = OwnerState
  BY <1>1, <1>2 DEF Lifecycle!vars
<1>3. CASE OwnerState = "none" /\ OwnerState' = "live"
  BY <1>1, <1>3 DEF Lifecycle!Next, Lifecycle!Claim
<1>4. CASE OwnerState = "live" /\ OwnerState' = "leaving"
  BY <1>1, <1>4 DEF Lifecycle!Next, Lifecycle!Leave
<1>5. CASE /\ OwnerState = "leaving" /\ OwnerState' = "none"
          /\ AccessState = "none" /\ deployed = Nothing
  BY <1>1, <1>5 DEF Lifecycle!Next, Lifecycle!Forget
<1>6. obj \in Objects \cup {NoObject}
  BY DEF TypeOK
<1>7. CASE AddFinalizer
  <2>1. /\ obj \in Objects /\ (obj.deleting => obj.finalizer)
        /\ obj' = [obj EXCEPT !.finalizer = TRUE]
    BY <1>6, <1>7 DEF AddFinalizer
  <2>2. obj' \in Objects /\ obj'.finalizer /\ obj'.deleting = obj.deleting
    BY <2>1 DEF Objects
  <2> QED BY <1>2, <1>3, <2>1, <2>2, NullsAssumption
          DEF OwnerState, Owned, NullsAssumption
<1>8. CASE PatchStatus
  <2>1. CASE UNCHANGED obj
    BY <1>2, <2>1 DEF OwnerState, Owned
  <2>2. CASE obj # NoObject /\ obj' = [obj EXCEPT !.phase = pass.phase]
    <3>1. obj' # NoObject /\ obj'.finalizer = obj.finalizer
          /\ obj'.deleting = obj.deleting
      <4>1. pass.phase \in Phases
        BY <1>8 DEF TypeOK, PatchStatus, Passes
      <4> QED BY <1>6, <2>2, <4>1, NullsAssumption DEF Objects, NullsAssumption
    <3> QED BY <1>2, <2>2, <3>1 DEF OwnerState, Owned
  <2> QED BY <1>8, <2>1, <2>2 DEF PatchStatus
<1>9. CASE RemoveFinalizer
  <2>1. CASE UNCHANGED obj
    BY <1>2, <2>1 DEF OwnerState, Owned
  <2>2. CASE /\ ~stale
            /\ obj' = IF obj.foreign THEN [obj EXCEPT !.finalizer = FALSE]
                      ELSE NoObject
    <3>1. obj \in Objects /\ ~Owned'
      BY <1>6, <1>9, <2>2 DEF RemoveFinalizer, FreshCopyExists, Objects, Owned
    <3>2. pass # NoPass /\ pass.deleting /\ AccessState = "none"
      BY <1>9 DEF RemoveFinalizer, CallFitsPass, TypeOK, ReleaseIsOrdered,
         AccessState
    <3>3. deployed = Nothing
      BY <1>9, SomeCluster DEF RemoveFinalizer, ReleaseIsOrdered, ServiceIsOwned
    <3>4. Owned => obj.deleting
      BY <3>2 DEF DeletionIsFinal
    <3> QED BY <1>2, <1>5, <3>1, <3>2, <3>3, <3>4 DEF OwnerState
  <2> QED BY <1>9, <2>1, <2>2 DEF RemoveFinalizer
<1>10. CASE ForeignRelease
  <2>1. \/ obj'.finalizer = obj.finalizer /\ obj'.deleting = obj.deleting
           /\ obj' # NoObject /\ obj # NoObject
        \/ ~Owned /\ ~Owned'
    BY <1>6, <1>10, NullsAssumption
       DEF ForeignRelease, Objects, Owned, NullsAssumption
  <2> QED BY <1>2, <2>1 DEF OwnerState, Owned
<1>11. CASE UserCreate
  <2>1. ~Owned
    BY <1>11 DEF UserCreate, Owned
  <2>2. ~Owned'
    <3>1. PICK foreign \in ForeignFinalizers :
            obj' = [deleting |-> FALSE, finalizer |-> FALSE,
                    foreign |-> foreign, phase |-> ""]
      BY <1>11 DEF UserCreate
    <3> QED BY <3>1 DEF Owned
  <2> QED BY <1>2, <2>1, <2>2 DEF OwnerState
<1>12. CASE UserEdit
  BY <1>2, <1>12 DEF UserEdit, OwnerState, Owned
<1>13. CASE UserDelete
  <2>1. \/ /\ obj \in Objects /\ ~obj.deleting
           /\ obj' = [obj EXCEPT !.deleting = TRUE]
        \/ ~Owned /\ ~Owned'
    BY <1>6, <1>13 DEF UserDelete, Owned
  <2>2. CASE ~Owned /\ ~Owned'
    BY <1>2, <2>2 DEF OwnerState
  <2>3. CASE /\ obj \in Objects /\ ~obj.deleting
            /\ obj' = [obj EXCEPT !.deleting = TRUE]
    <3>1. /\ obj # NoObject /\ obj' # NoObject
          /\ obj'.deleting /\ obj'.finalizer = obj.finalizer
      BY <2>3, NullsAssumption DEF Objects, NullsAssumption
    <3> QED BY <1>2, <1>4, <2>3, <3>1 DEF OwnerState, Owned
  <2> QED BY <2>1, <2>2, <2>3
<1> QED BY <1>7, <1>8, <1>9, <1>10, <1>11, <1>12, <1>13

(* The steps that change the access ask for it, find it granted or give it *)
(* up.                                                                     *)
LEMMA AccessMapped ==
  ASSUME IInv, UNCHANGED <<obj, deployed>>,
         ReconcileAccess \/ ReleaseAccess \/ Platform
  PROVE  [Lifecycle!Next]_(Lifecycle!vars)
<1> USE DEF IInv, Ownership
<1>1. OwnerState' = OwnerState /\ (deployed # Nothing)' = (deployed # Nothing)
  BY DEF OwnerState, Owned
<1>2. CASE AccessState' = AccessState
  BY <1>1, <1>2 DEF Lifecycle!vars
<1>3. CASE /\ Owned
          /\ \/ AccessState = "none" /\ AccessState' = "waiting"
             \/ AccessState = "waiting" /\ AccessState' = "open"
  BY <1>1, <1>3 DEF Lifecycle!Next, Lifecycle!Request, Lifecycle!Open, OwnerState
<1>4. CASE /\ Owned /\ obj.deleting /\ deployed = Nothing
          /\ AccessState # "none" /\ AccessState' \in {"none", "waiting"}
  BY <1>1, <1>4 DEF Lifecycle!Next, Lifecycle!Release, OwnerState
<1>5. access \in [Clusters -> AccessStates]
  BY DEF TypeOK
<1>6. ASSUME UNCHANGED access
      PROVE  [Lifecycle!Next]_(Lifecycle!vars)
  BY <1>2, <1>6 DEF AccessState
<1>7. CASE ReconcileAccess
  <2>1. PICK cs \in SUBSET Clusters :
          access' = [c \in Clusters |->
            IF c \in cs /\ access[c] = "absent" THEN "pending" ELSE access[c]]
    BY <1>7 DEF ReconcileAccess
  <2>2. Owned
    BY <1>7 DEF ReconcileAccess, PassIsOwned
  <2>3. CASE \E c \in cs : access[c] = "absent"
    <3>1. PICK c \in Clusters : access[c] = "absent" /\ access'[c] = "pending"
      BY <2>1, <2>3
    <3>2. AccessState \in {"none", "waiting"} /\ AccessState' = "waiting"
      BY <3>1 DEF AccessState
    <3> QED BY <1>2, <1>3, <2>2, <3>2
  <2>4. CASE ~ \E c \in cs : access[c] = "absent"
    <3>1. access' = access
      BY <1>5, <2>1, <2>4
    <3> QED BY <1>6, <3>1
  <2> QED BY <2>3, <2>4
<1>8. CASE ReleaseAccess
  <2>1. PICK cs \in SUBSET Clusters :
          access' = [c \in Clusters |->
            IF c \notin cs THEN access[c]
            ELSE IF access[c] \in {"granted", "revoking"} /\ ~ReleaseAtOnce
                 THEN "revoking" ELSE "absent"]
    BY <1>8 DEF ReleaseAccess
  <2>2. deployed = Nothing /\ pass # NoPass /\ pass.deleting
    BY <1>8 DEF ReleaseAccess, ReleaseIsOrdered, CallFitsPass, TypeOK
  <2>3. CASE \E c \in Clusters : access'[c] # access[c]
    <3>1. PICK c \in Clusters :
            access[c] # "absent" /\ access'[c] \in {"absent", "revoking"}
      BY <2>1, <2>3
    <3>2. Owned /\ obj.deleting
      BY <2>2, <3>1 DEF AccessIsOwned, DeletionIsFinal
    <3>3. AccessState # "none" /\ AccessState' \in {"none", "waiting"}
      BY <3>1 DEF AccessState
    <3> QED BY <1>4, <2>2, <3>2, <3>3
  <2>4. CASE \A c \in Clusters : access'[c] = access[c]
    <3>1. access' = access
      BY <1>5, <2>1, <2>4
    <3> QED BY <1>6, <3>1
  <2> QED BY <2>3, <2>4
<1>9. CASE Platform
  <2>1. PICK c \in Clusters :
          \/ access[c] = "pending" /\ access' = [access EXCEPT ![c] = "granted"]
          \/ access[c] = "revoking" /\ access' = [access EXCEPT ![c] = "absent"]
    BY <1>9 DEF Platform
  <2>2. Owned /\ AccessState = "waiting"
    BY <2>1 DEF AccessIsOwned, AccessState
  <2>3. CASE access[c] = "pending"
    <3>1. access'[c] = "granted"
      BY <1>5, <2>1, <2>3
    <3>2. AccessState' \in {"waiting", "open"}
      BY <3>1 DEF AccessState
    <3> QED BY <1>2, <1>3, <2>2, <3>2
  <2>4. CASE access[c] = "revoking"
    <3>1. access'[c] = "absent"
      BY <1>5, <2>1, <2>4
    <3>2. AccessState' \in {"none", "waiting"}
      BY <3>1 DEF AccessState
    <3>3. obj.deleting /\ deployed = Nothing
      BY <2>4 DEF DeletionIsFinal, ServiceIsOwned
    <3> QED BY <1>4, <2>2, <3>2, <3>3
  <2> QED BY <2>1, <2>3, <2>4
<1> QED BY <1>7, <1>8, <1>9

(* The domain reconciler's steps deploy the service through access that is *)
(* complete and withdraw it from an object that leaves.                    *)
LEMMA ServiceMapped ==
  ASSUME IInv, UNCHANGED <<obj, access>>, CreateOrUpdate \/ Delete
  PROVE  [Lifecycle!Next]_(Lifecycle!vars)
<1> USE DEF IInv, Ownership
<1>1. OwnerState' = OwnerState /\ AccessState' = AccessState
  BY DEF OwnerState, AccessState, Owned
<1>2. CASE UNCHANGED deployed
  BY <1>2, SameMapping
<1>3. Owned
  BY DEF PassIsOwned, CreateOrUpdate, Delete
<1>4. CASE CreateOrUpdate /\ deployed' = pass.config
  <2>1. deployed' # Nothing
    BY <1>4, RuntimeAssumption
       DEF CreateOrUpdate, PassHasConfig, RuntimeAssumption
  <2>2. AccessState = "open"
    BY <1>4, SomeCluster DEF CreateOrUpdate, AccessIsEstablished, AccessState
  <2>3. CASE deployed = Nothing
    BY <1>1, <1>3, <2>1, <2>2, <2>3
       DEF Lifecycle!Next, Lifecycle!Deploy, OwnerState
  <2>4. CASE deployed # Nothing
    BY <1>1, <2>1, <2>4 DEF Lifecycle!vars
  <2> QED BY <2>3, <2>4
<1>5. CASE Delete /\ deployed' = Nothing
  <2>1. OwnerState = "leaving"
    BY <1>3, <1>5 DEF Delete, CallFitsPass, DeletionIsFinal, TypeOK, OwnerState
  <2>2. CASE deployed = Nothing
    BY <1>1, <1>5, <2>2 DEF Lifecycle!vars
  <2>3. CASE deployed # Nothing
    <3>1. AccessState = "open"
      BY <2>3, SomeCluster DEF ServiceIsOwned, AccessState
    <3> QED BY <1>1, <1>5, <2>1, <2>3, <3>1
            DEF Lifecycle!Next, Lifecycle!Withdraw
  <2> QED BY <2>2, <2>3
<1> QED BY <1>2, <1>4, <1>5 DEF CreateOrUpdate, Delete

(* Every step of the loop is one that is promised, or changes nothing of   *)
(* what the promise is about.                                              *)
LEMMA StepOfLifecycle ==
  ASSUME IInv, [Next]_vars
  PROVE  [Lifecycle!Next]_(Lifecycle!vars)
<1>1. CASE UNCHANGED <<obj, access, deployed>>
  BY <1>1, SameMapping
<1>2. CASE Start \/ GetObject \/ GetFails \/ AddFinalizerFails \/ CheckAccess
          \/ GetClusters \/ ListObjects \/ Crash \/ UNCHANGED spVars
  BY <1>1, <1>2 DEF Start, GetObject, GetFails, AddFinalizerFails, CheckAccess,
     GetClusters, Requeue, ListObjects, Crash, spVars
<1>3. CASE AddFinalizer \/ PatchStatus \/ RemoveFinalizer \/ ForeignRelease
          \/ UserCreate \/ UserEdit \/ UserDelete
  BY <1>3, OwnerMapped DEF AddFinalizer, PatchStatus, RemoveFinalizer,
     ForeignRelease, UserCreate, UserEdit, UserDelete, ObjectWritten
<1>4. CASE ReconcileAccess \/ ReleaseAccess \/ Platform
  BY <1>4, AccessMapped DEF ReconcileAccess, ReleaseAccess, Platform
<1>5. CASE CreateOrUpdate \/ Delete
  BY <1>5, ServiceMapped DEF CreateOrUpdate, Delete, Answer
<1> QED BY <1>2, <1>3, <1>4, <1>5 DEF Next, vars, Reconcile

(* The generic loop implements the life cycle a service provider promises: *)
(* claim, access, deployment in this order, and the way back in the        *)
(* opposite one, from a deleted object only (spreconciler.go:171-266).     *)
THEOREM RuntimeImplementsLifecycle == Spec => ImplementsLifecycle
<1>1. Init => Lifecycle!Init
  BY DEF Init, Lifecycle!Init, OwnerState, AccessState, Owned
<1> QED BY <1>1, StepOfLifecycle, RuntimeInvariant, PTL
        DEF Spec, ImplementsLifecycle, Lifecycle!Spec
===============================================================================
