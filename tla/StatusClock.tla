------------------------------- MODULE StatusClock -------------------------------
(***************************************************************************)
(* The Ready condition with its lastTransitionTime, which KsmController    *)
(* leaves out: the passes over one object that is deployed already, on a   *)
(* clock of whole seconds, as metav1.Time is stored.                       *)
(***************************************************************************)
EXTENDS Naturals

CONSTANT MaxTime  \* bound on the clock

VARIABLES
  clock,
  condition,     \* the Ready condition on the API server
  ready,         \* the Deployment's pods are ready
  dirty, timer,  \* the key is queued; a requeue is scheduled
  pc,            \* what the worker does next
  old, ksm       \* the pass's two copies of the condition

queueVars == <<dirty, timer>>
passVars == <<pc, old, ksm>>
vars == <<clock, condition, ready, queueVars, passVars>>

NoCondition == [status |-> "", reason |-> "", since |-> 0]

(* meta.SetStatusCondition: the time moves when the status does.           *)
SetStatusCondition(c, status, reason) ==
  [status |-> status, reason |-> reason,
   since |-> IF c.status = status THEN c.since ELSE clock]

StatusProgressing(c, reason) == SetStatusCondition(c, "False", reason)
StatusReady(c) == SetStatusCondition(c, "True", "ReconcileSuccess")

Init == /\ clock = 0 /\ condition = NoCondition /\ ready = FALSE
        /\ dirty = TRUE /\ timer = FALSE
        /\ pc = "Idle" /\ old = NoCondition /\ ksm = NoCondition

-------------------------------------------------------------------------------
(* Get, oldKsm := ksm.DeepCopy(), StatusProgressing on the copy.           *)
Start == /\ pc = "Idle" /\ dirty /\ dirty' = FALSE
         /\ pc' = "Deploy"
         /\ old' = condition
         /\ ksm' = StatusProgressing(condition, "Reconciling")
         /\ UNCHANGED <<clock, condition, ready, timer>>

(* deployKubeStateMetrics comes back and the outcome is noted.             *)
Deployed == /\ pc = "Deploy" /\ pc' = "Patch"
            /\ ksm' = IF ready THEN StatusReady(ksm)
                      ELSE StatusProgressing(ksm, "WaitingForPods")
            /\ UNCHANGED <<clock, condition, ready, queueVars, old>>

(* A patch without a difference changes nothing and makes no event.        *)
Patch == /\ pc = "Patch" /\ pc' = "Idle"
         /\ condition' = IF ksm # old THEN ksm ELSE condition
         /\ dirty' = (dirty \/ ksm # old) /\ timer' = TRUE
         /\ UNCHANGED <<clock, ready, old, ksm>>

TimerFires == /\ timer /\ timer' = FALSE /\ dirty' = TRUE
              /\ UNCHANGED <<clock, condition, ready, passVars>>

PodsChange == /\ ready' = ~ready
              /\ UNCHANGED <<clock, condition, queueVars, passVars>>

Tick == /\ clock < MaxTime /\ clock' = clock + 1
        /\ UNCHANGED <<condition, ready, queueVars, passVars>>

Next == Start \/ Deployed \/ Patch \/ TimerFires \/ PodsChange \/ Tick

Spec == Init /\ [][Next]_vars

-------------------------------------------------------------------------------
(* "lastTransitionTime is the last time the condition transitioned from    *)
(* one status to another" (the CRD manifest, line 415): the time stored    *)
(* with the condition moves only when its status does                      *)
(* (controller.go:119-154, status.go:20-43).                               *)
TransitionMovesTheTime ==
  [][condition'.since # condition.since => condition'.status # condition.status]_vars
===============================================================================
