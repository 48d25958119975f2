------------------------------ MODULE KsmDesired ------------------------------
(***************************************************************************)
(* What a KubeStateMetrics object asks for on the MCP cluster: the target  *)
(* namespace, the objects the provider manages there, the pod template it  *)
(* renders from the spec and the user's ConfigMap, and the status writes.  *)
(* Everything here is a constant-level operator; the state machines of the *)
(* controllers are built from it.                                          *)
(***************************************************************************)
EXTENDS Naturals, Sequences, FiniteSets

CONSTANTS
  Namespaces,        \* namespaces of the MCP cluster
  DefaultNamespace,  \* "observability" in the code
  Workloads,         \* image, replicas, args, resources... of a spec, as one value
  ConfigData,        \* the Data maps a user may put into the ConfigMap
  NoConfig           \* the ConfigMap does not exist

ASSUME DefaultNamespaceAssumption == DefaultNamespace \in Namespaces

-------------------------------------------------------------------------------
(* The spec of the object.  An empty spec.namespace survives the API       *)
(* server's defaulting when the user writes "" explicitly.                 *)

Specs == [namespace : Namespaces \cup {""}, workload : Workloads]

TargetNamespace(spec) ==
  IF spec.namespace = "" THEN DefaultNamespace ELSE spec.namespace

-------------------------------------------------------------------------------
(* The objects deployKubeStateMetrics writes and cleanupKubeStateMetrics   *)
(* removes.  Two kinds are cluster scoped: there is one of each on an MCP  *)
(* cluster, whatever the namespace.                                        *)

ClusterScoped == {"ClusterRole", "ClusterRoleBinding"}
Kinds == {"Namespace", "ServiceAccount", "Deployment", "Service",
          "PodDisruptionBudget"} \cup ClusterScoped

Managed(kind, ns) == <<kind, IF kind \in ClusterScoped THEN "" ELSE ns>>

ManagedObjects == Kinds \X (Namespaces \cup {""})

FullDeployment(ns) == {Managed(kind, ns) : kind \in Kinds}

-------------------------------------------------------------------------------
(* computeConfigMapHash: the bytes fed to SHA-256 are "key=value\n" for    *)
(* every key in sorted order; no data gives the empty string.  A value is  *)
(* a sequence of tokens, and SHA-256 is taken to be injective, so a digest *)
(* is represented by the bytes it digests.                                 *)

StdKey == "config.yaml"
CRSKey == "custom-resource-state-config.yaml"
OtherKey == "extra.yaml"
SortedKeys == <<StdKey, CRSKey, OtherKey>>

(* Mutant: nothing separates one key's value from the next key.            *)
ConfigHash_NoNewline(data) ==
  LET Line(key) == IF key \in DOMAIN data THEN <<key, "=">> \o data[key]
                   ELSE <<>>
  IN  Line(SortedKeys[1]) \o Line(SortedKeys[2]) \o Line(SortedKeys[3])

ConfigHash(data) ==
  LET Line(key) == IF key \in DOMAIN data
                   THEN <<key, "=">> \o data[key] \o <<"\n">>
                   ELSE <<>>
  IN  Line(SortedKeys[1]) \o Line(SortedKeys[2]) \o Line(SortedKeys[3])

(* The hash resolveConfig returns: "" when there is no ConfigMap.          *)
HashOf(config) == IF config = NoConfig THEN <<>> ELSE ConfigHash(config)
SourceOf(config) == IF config = NoConfig THEN "" ELSE "mcp"

Configs == ConfigData \cup {NoConfig}
Hashes == {HashOf(config) : config \in Configs}

(* The flags derived from the ConfigMap's keys, in the order of the        *)
(* container's arguments (each append in the code puts its flag in front). *)
ConfigFlags(config) ==
  LET has(key) == config # NoConfig /\ key \in DOMAIN config
      flag(cond, name) == IF cond THEN <<name>> ELSE <<>>
  IN  flag(has(StdKey), "--config")
      \o flag(has(CRSKey) /\ ~has(StdKey), "--custom-resource-state-only")
      \o flag(has(CRSKey), "--custom-resource-state-config-file")

(* What makes the Deployment controller roll new pods: the workload part   *)
(* of the spec, the derived flags, the mounted volume, the annotation.     *)
Template(spec, config) ==
  [workload |-> spec.workload,
   flags    |-> ConfigFlags(config),
   mounted  |-> config # NoConfig,
   hash     |-> HashOf(config)]

Templates == {Template(spec, config) : spec \in Specs, config \in Configs}

-------------------------------------------------------------------------------
(* Status.  The Ready condition's status is True exactly in phase Ready    *)
(* and its observedGeneration is the status's own: the three setters write *)
(* them together, so only phase, reason and observed are kept.             *)

Phases == {"", "Progressing", "Ready", "Terminating"}
Reasons == {"", "Reconciling", "ClusterAccessError", "DeploymentError",
            "WaitingForPods", "ReconcileSuccess", "Terminating"}
Statuses == [phase : Phases, reason : Reasons, observed : Nat,
             source : {"", "mcp"}, hash : Hashes]

NoStatus == [phase |-> "", reason |-> "", observed |-> 0,
             source |-> "", hash |-> <<>>]

(* Mutant: phase and reason swapped.                                       *)
SetCondition_Swapped(status, generation, phase, reason) ==
  [status EXCEPT !.phase = reason, !.reason = phase, !.observed = generation]

SetCondition(status, generation, phase, reason) ==
  [status EXCEPT !.phase = phase, !.reason = reason, !.observed = generation]

StatusProgressing(status, generation, reason) ==
  SetCondition(status, generation, "Progressing", reason)

StatusReady(status, generation) ==
  SetCondition(status, generation, "Ready", "ReconcileSuccess")

StatusTerminating(status, generation) ==
  SetCondition(status, generation, "Terminating", "Terminating")

(* Status().Patch with client.MergeFrom(old): only the fields that differ  *)
(* between the two local copies are sent, and they overwrite the server's  *)
(* whatever they are by then.  A JSON merge patch sends the conditions as  *)
(* a whole: the reason goes with any change of the Ready condition.        *)
MergePatch(server, old, new) ==
  LET Sent(mine, before, theirs) == IF mine # before THEN mine ELSE theirs
      SameCondition == /\ new.reason = old.reason
                       /\ new.observed = old.observed
                       /\ new.phase = "Ready" <=> old.phase = "Ready"
  IN  [phase    |-> Sent(new.phase, old.phase, server.phase),
       reason   |-> IF SameCondition THEN server.reason ELSE new.reason,
       observed |-> Sent(new.observed, old.observed, server.observed),
       source   |-> Sent(new.source, old.source, server.source),
       hash     |-> Sent(new.hash, old.hash, server.hash)]
===============================================================================
