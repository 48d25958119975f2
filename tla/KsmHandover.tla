------------------------------- MODULE KsmHandover -------------------------------
(***************************************************************************)
(* A rolling update of the provider without leader election, the default:  *)
(* the old process still makes passes while the new one already works, on  *)
(* the same object and the same clusters.  The worker of the new process   *)
(* is KsmController's.  The old one's is a second instance of it whose     *)
(* queue is always full: it always has a reason for another pass.          *)
(***************************************************************************)
EXTENDS KsmDesired

CONSTANTS NoObject, NoPass, NoTemplate, UserActions, MaxUserActions,
          Faults, MaxFaults, ForeignFinalizers, ReleaseAtOnce,
          MaxOldPasses  \* bound on the passes of the old process

ASSUME OldPassesAssumption == MaxOldPasses \in Nat

VARIABLES
  obj, access, objects, subject, rollout, config, userActions, faults,
  dirty, timer, pc, held, stale,        \* the new process
  oldPc, oldHeld, oldStale, oldQueue, oldPasses  \* the old process

newVars == <<dirty, timer, pc, held, stale>>
oldVars == <<oldPc, oldHeld, oldStale, oldQueue, oldPasses>>
clusterVars == <<obj, access, objects, subject, rollout, config>>
vars == <<clusterVars, newVars, oldVars, userActions, faults>>

New == INSTANCE KsmController
Old == INSTANCE KsmController
         WITH dirty <- oldQueue, timer <- oldQueue,
              pc <- oldPc, held <- oldHeld, stale <- oldStale

Init == /\ New!Init
        /\ oldPc = "Idle" /\ oldHeld = NoPass /\ oldStale = FALSE
        /\ oldQueue = TRUE /\ oldPasses = 0

-------------------------------------------------------------------------------
(* What a process sees of the steps it does not take: an event when the    *)
(* object is written, be it only its lastTransitionTime.                   *)

MayWrite(call, copies) ==
  obj' # obj \/ (call = "PatchStatus" /\ copies.ksm.status.phase = "Ready")

OldSees(call, copies) ==
  /\ UNCHANGED <<oldPc, oldHeld, oldQueue, oldPasses>>
  /\ \/ obj' = obj /\ UNCHANGED oldStale
     \/ /\ MayWrite(call, copies)
        /\ oldStale' = (oldPc \notin {"Idle", "Get"})

NewSees(call, copies) ==
  /\ UNCHANGED <<timer, pc, held>>
  /\ \/ obj' = obj /\ UNCHANGED <<dirty, stale>>
     \/ /\ MayWrite(call, copies)
        /\ dirty' = TRUE /\ stale' = (pc \notin {"Idle", "Get"})

OldStart ==
  /\ oldPc = "Idle" /\ oldPc' = "Get"
  /\ oldPasses < MaxOldPasses /\ oldPasses' = oldPasses + 1
  /\ UNCHANGED <<clusterVars, newVars, oldHeld, oldStale, oldQueue,
                 userActions, faults>>

OldPass == /\ oldPc # "Idle" /\ Old!Reconcile
           /\ NewSees(oldPc, oldHeld) /\ UNCHANGED oldPasses

(* The old process is gone, in the middle of a pass or not.                *)
OldExits ==
  /\ oldPc' = "Idle" /\ oldHeld' = NoPass /\ oldStale' = FALSE
  /\ oldPasses < MaxOldPasses \/ oldPc # "Idle"
  /\ oldPasses' = MaxOldPasses
  /\ UNCHANGED <<clusterVars, newVars, oldQueue, userActions, faults>>

NewPass == New!Reconcile /\ OldSees(pc, held)
Timer == New!TimerFires /\ UNCHANGED oldVars

(* Users, the platform and the pods act on the clusters.  Bound: users     *)
(* leave the namespace to its default.                                     *)
Others == /\ New!Users \/ New!Environment
          /\ obj' # NoObject => obj'.spec.namespace = ""
          /\ OldSees("Idle", NoPass)

Next == NewPass \/ Timer \/ OldStart \/ OldPass \/ OldExits \/ Others

Spec == Init /\ [][Next]_vars

(* The new process runs its worker and its timer; a pass of the old one    *)
(* goes on, if it is not cut off.                                          *)
Fairness ==
  /\ WF_vars(NewPass) /\ WF_vars(Timer) /\ WF_vars(OldPass)
  /\ WF_vars((New!Grant \/ New!Revoked \/ New!ForeignRelease)
             /\ OldSees("Idle", NoPass))
  /\ \A ns \in Namespaces :
       WF_vars(New!RolloutDone(ns) /\ OldSees("Idle", NoPass))

FairSpec == Spec /\ Fairness

-------------------------------------------------------------------------------
(* Properties                                                              *)

(* The processes agree in the end: although the old one may deploy what    *)
(* the new one removes, send a status as a diff against a copy that the    *)
(* new one has replaced, or clean up after the object was created again,   *)
(* an object that stays ends up deployed as it says, with its status right *)
(* (controller.go:93-166, main.go:127).                                    *)
Converges == New!Converges

(* A deletion that both work on, each finding half of it done by the       *)
(* other, is not kept from its end by that: only an AccessRequest that is  *)
(* made again and again keeps it (controller.go:195-238, 506-510).         *)
DeletionCompletes == New!DeletionCompletes
===============================================================================
